---- MODULE Spec2Model ----
(***************************************************************************)
(* Model of the keyword-density edge function (analyze-keyword-density)    *)
(* and of the ExportList page (archive / delete per company).              *)
(*                                                                         *)
(* Text is modelled character by character: a string is a sequence of      *)
(* one-character strings, so the regular expressions, trim, toLowerCase    *)
(* and split of the handler are computed the way the code computes them.   *)
(***************************************************************************)
EXTENDS Integers, Sequences, FiniteSets, TLC

(***************************************************************************)
(* Bounds of the model.                                                    *)
(***************************************************************************)
\* number of fragments a fetched document is assembled from
MaxFrags == 2
\* number of handler calls the ExportList page may have started
MaxCalls == 2
\* number of analyses in the store when the page is first rendered
MaxRows == 2

(***************************************************************************)
(* Program constants.                                                      *)
(***************************************************************************)
\* word.length > 3
MinLen == 3
\* .slice(0, 20)
TopN == 20
\* the decimal digits of the largest array index of an ECMAScript object,
\* 2^32 - 2: property keys that are canonical numeric strings up to it are
\* enumerated first, in ascending numeric order
MaxArrayIndex == <<"4", "2", "9", "4", "9", "6", "7", "2", "9", "4">>

(***************************************************************************)
(* Characters and strings.                                                 *)
(***************************************************************************)
\* the function f on 1..n as a sequence, its elements computed once
AsSeq(f) == SubSeq(f, 1, Len(f))

\* the characters of \s that occur in the documents
WS == {" ", "\n"}

Digits == {"0", "1", "2", "3", "4", "5", "6", "7", "8", "9"}

DigitVal(c) ==
    CASE c = "0" -> 0 [] c = "1" -> 1 [] c = "2" -> 2 [] c = "3" -> 3
      [] c = "4" -> 4 [] c = "5" -> 5 [] c = "6" -> 6 [] c = "7" -> 7
      [] c = "8" -> 8 [] c = "9" -> 9

UpperMap ==
    [A |-> "a", B |-> "b", C |-> "c", D |-> "d", E |-> "e", F |-> "f",
     G |-> "g", H |-> "h", I |-> "i", J |-> "j", K |-> "k", L |-> "l",
     M |-> "m", N |-> "n", O |-> "o", P |-> "p", Q |-> "q", R |-> "r",
     S |-> "s", T |-> "t", U |-> "u", V |-> "v", W |-> "w", X |-> "x",
     Y |-> "y", Z |-> "z"]

ToLowerChar(c) == IF c \in DOMAIN UpperMap THEN UpperMap[c] ELSE c

\* String.prototype.toLowerCase
ToLowerCase(s) == AsSeq([i \in 1..Len(s) |-> ToLowerChar(s[i])])

\* the literal lit (lower case) occurs in s at position i, letter case ignored
MatchCI(s, i, lit) ==
    /\ i + Len(lit) - 1 <= Len(s)
    /\ \A k \in 1..Len(lit) : ToLowerChar(s[i + k - 1]) = lit[k]

\* least j >= i with s[j] = ">", 0 when there is none
FirstGt(s, i) ==
    LET js == {j \in i..Len(s) : s[j] = ">"}
    IN  IF js = {} THEN 0 ELSE CHOOSE j \in js : \A k \in js : j <= k

\* least j >= i where the literal lit starts, 0 when there is none
FirstLit(s, i, lit) ==
    LET js == {j \in i..Len(s) : MatchCI(s, j, lit)}
    IN  IF js = {} THEN 0 ELSE CHOOSE j \in js : \A k \in js : j <= k

\* least j >= i with s[j] not white space, Len(s) + 1 when there is none
FirstNonWS(s, i) ==
    LET js == {j \in i..Len(s) : s[j] \notin WS}
    IN  IF js = {} THEN Len(s) + 1 ELSE CHOOSE j \in js : \A k \in js : j <= k

\* the last position of a match of /<open[^>]*>[\s\S]*?close/i starting at i,
\* 0 when the expression does not match at i
BlockEnd(s, i, open, close) ==
    IF ~MatchCI(s, i, open) THEN 0
    ELSE LET g == FirstGt(s, i + Len(open))
         IN  IF g = 0 THEN 0
             ELSE LET c == FirstLit(s, g + 1, close)
                  IN  IF c = 0 THEN 0 ELSE c + Len(close) - 1

\* the least of the positions js (where a match starts), 0 when there is none
FirstMatch(js) == IF js = {} THEN 0 ELSE CHOOSE j \in js : \A k \in js : j <= k

RECURSIVE RemoveBlocksFrom(_, _, _, _)
\* s from position i on, every match (leftmost first, not overlapping) removed
RemoveBlocksFrom(s, i, open, close) ==
    LET Ends(j) == BlockEnd(s, j, open, close)
        m == FirstMatch({j \in i..Len(s) : Ends(j) # 0})
    IN  IF m = 0 THEN SubSeq(s, i, Len(s))
        ELSE SubSeq(s, i, m - 1) \o RemoveBlocksFrom(s, Ends(m) + 1, open, close)

StyleOpen == <<"<", "s", "t", "y", "l", "e">>
StyleClose == <<"<", "/", "s", "t", "y", "l", "e", ">">>
ScriptOpen == <<"<", "s", "c", "r", "i", "p", "t">>
ScriptClose == <<"<", "/", "s", "c", "r", "i", "p", "t", ">">>

\* .replace(/<style[^>]*>[\s\S]*?<\/style>/gi, '')
RemoveStyle(s) == RemoveBlocksFrom(s, 1, StyleOpen, StyleClose)

\* .replace(/<script[^>]*>[\s\S]*?<\/script>/gi, '')
RemoveScript(s) == RemoveBlocksFrom(s, 1, ScriptOpen, ScriptClose)

\* the last position of a match of /<[^>]+>/ starting at i, 0 when none
TagEnd(s, i) ==
    IF s[i] # "<" THEN 0
    ELSE LET g == FirstGt(s, i + 1)
         IN  IF g = 0 \/ g = i + 1 THEN 0 ELSE g

RECURSIVE ReplaceTagsFrom(_, _)
\* s from position i on, every match replaced by one space
ReplaceTagsFrom(s, i) ==
    LET Ends(j) == TagEnd(s, j)
        m == FirstMatch({j \in i..Len(s) : Ends(j) # 0})
    IN  IF m = 0 THEN SubSeq(s, i, Len(s))
        ELSE SubSeq(s, i, m - 1) \o <<" ">> \o ReplaceTagsFrom(s, Ends(m) + 1)

\* .replace(/<[^>]+>/g, ' ')
ReplaceTags(s) == ReplaceTagsFrom(s, 1)

\* the positions 1..Len(s), in order
Positions(s) == AsSeq([i \in 1..Len(s) |-> i])

\* a white-space run of s starts at i; ends at i
RunStart(s, i) == s[i] \in WS /\ (i = 1 \/ s[i - 1] \notin WS)
RunEnd(s, i) == s[i] \in WS /\ (i = Len(s) \/ s[i + 1] \notin WS)

\* .replace(/\s+/g, ' ')
CollapseWS(s) ==
    LET Kept(i) == s[i] \notin WS \/ RunStart(s, i)
        kept == SelectSeq(Positions(s), Kept)
    IN  AsSeq([k \in 1..Len(kept) |-> IF s[kept[k]] \in WS THEN " " ELSE s[kept[k]]])

\* .trim()
Trim(s) ==
    LET a == FirstNonWS(s, 1)
    IN  IF a > Len(s) THEN <<>>
        ELSE LET b == CHOOSE j \in a..Len(s) :
                          /\ s[j] \notin WS
                          /\ \A k \in (j + 1)..Len(s) : s[k] \in WS
             IN  SubSeq(s, a, b)

\* the visible text of a document
VisibleText(html) ==
    ToLowerCase(Trim(CollapseWS(ReplaceTags(RemoveScript(RemoveStyle(html))))))

\* visibleText.split(/\s+/): the pieces between the white-space runs; the
\* empty string gives one empty piece
SplitWS(s) ==
    LET Starts(i) == RunStart(s, i)
        Ends(i) == RunEnd(s, i)
        starts == SelectSeq(Positions(s), Starts)
        ends == SelectSeq(Positions(s), Ends)
    IN  AsSeq([k \in 1..(Len(starts) + 1) |->
            SubSeq(s, IF k = 1 THEN 1 ELSE ends[k - 1] + 1,
                      IF k = Len(starts) + 1 THEN Len(s) ELSE starts[k] - 1)])

(***************************************************************************)
(* wordFrequency: an object literal {}, so an ordinary object whose        *)
(* prototype is Object.prototype.  own is its own properties in creation   *)
(* order.  A property value is a number, or what the code's `+ 1` makes of *)
(* an inherited value: the source text of the Object function followed by  *)
(* n characters "1" (t = "str").                                           *)
(***************************************************************************)
Constructor == <<"c", "o", "n", "s", "t", "r", "u", "c", "t", "o", "r">>
Proto == <<"_", "_", "p", "r", "o", "t", "o", "_", "_">>

NumV(n) == [t |-> "num", n |-> n]
StrV(n) == [t |-> "str", n |-> n]
Undefined == [t |-> "undefined", n |-> 0]

HasOwn(own, key) == \E i \in 1..Len(own) : own[i].key = key

OwnIndex(own, key) == CHOOSE i \in 1..Len(own) : own[i].key = key

\* the lower-case property names Object.prototype answers: the constructor
\* function and the __proto__ accessor, whose getter returns the prototype
ProtoGet(key) ==
    IF key = Constructor THEN [t |-> "function", n |-> 0]
    ELSE IF key = Proto THEN [t |-> "object", n |-> 0]
    ELSE Undefined

\* wordFrequency[word]
Get(own, key) == IF HasOwn(own, key) THEN own[OwnIndex(own, key)].val ELSE ProtoGet(key)

\* (v || 0) + 1
OrZeroPlusOne(v) ==
    CASE v.t = "undefined" -> NumV(1)
      [] v.t = "num" -> NumV(v.n + 1)
      [] v.t = "function" -> StrV(1)
      [] v.t = "str" -> StrV(v.n + 1)
      [] v.t = "object" -> [t |-> "objstr", n |-> 1]

\* wordFrequency[word] = v: the __proto__ setter ignores a value that is
\* neither an object nor null; any other key becomes or stays an own property
Put(own, key, v) ==
    IF key = Proto THEN own
    ELSE IF HasOwn(own, key)
         THEN [own EXCEPT ![OwnIndex(own, key)].val = v]
         ELSE Append(own, [key |-> key, val |-> v])

\* the body of the forEach callback
CountWord(own, word) ==
    IF Len(word) > MinLen THEN Put(own, word, OrZeroPlusOne(Get(own, word))) ELSE own

RECURSIVE CountRange(_, _, _, _)
\* the callback on words[lo], ..., words[hi] in this order, from own on (own
\* is looked at first, so that it is computed before the words that follow)
CountRange(words, lo, hi, own) ==
    IF Len(own) = 0 /\ lo > hi THEN <<>>
    ELSE IF lo > hi THEN own
    ELSE IF lo = hi THEN CountWord(own, words[lo])
    ELSE LET mid == (lo + hi) \div 2
         IN  CountRange(words, mid + 1, hi, CountRange(words, lo, mid, own))

\* words.forEach(...) on an empty wordFrequency
WordFrequency(words) == CountRange(words, 1, Len(words), <<>>)

\* a <= b for digit strings of the same length
RECURSIVE DigitsLeq(_, _, _)
DigitsLeq(a, b, i) ==
    IF i > Len(a) THEN TRUE
    ELSE IF DigitVal(a[i]) < DigitVal(b[i]) THEN TRUE
    ELSE IF DigitVal(a[i]) > DigitVal(b[i]) THEN FALSE
    ELSE DigitsLeq(a, b, i + 1)

\* a <= b for canonical numeric strings
NumLeq(a, b) == Len(a) < Len(b) \/ (Len(a) = Len(b) /\ DigitsLeq(a, b, 1))

\* key is an array index: a canonical numeric string not above 2^32 - 2
IsArrayIndex(key) ==
    /\ Len(key) >= 1
    /\ \A i \in 1..Len(key) : key[i] \in Digits
    /\ (Len(key) = 1 \/ key[1] # "0")
    /\ NumLeq(key, MaxArrayIndex)

RECURSIVE AscendingKeys(_)
\* the properties ps, all array indices, in ascending numeric order
AscendingKeys(ps) ==
    IF ps = <<>> THEN <<>>
    ELSE LET m == CHOOSE i \in 1..Len(ps) :
                      \A j \in 1..Len(ps) : NumLeq(ps[i].key, ps[j].key)
             rest == [j \in 1..(Len(ps) - 1) |-> IF j < m THEN ps[j] ELSE ps[j + 1]]
         IN  <<ps[m]>> \o AscendingKeys(rest)

\* Object.entries(wordFrequency): the array-index keys in ascending numeric
\* order, then the other keys in the order of their creation
ObjectEntries(own) ==
    LET IsIdx(p) == IsArrayIndex(p.key)
        NotIdx(p) == ~IsArrayIndex(p.key)
    IN  AscendingKeys(SelectSeq(own, IsIdx)) \o SelectSeq(own, NotIdx)

\* (count / totalWords) * 100, kept as the fraction num / den; NaN when count
\* is not a number
Density(count, totalWords) ==
    IF count.t = "num"
    THEN [nan |-> FALSE, num |-> count.n * 100, den |-> totalWords]
    ELSE [nan |-> TRUE, num |-> 0, den |-> totalWords]

\* .map(([keyword, count]) => ({ keyword, count, density }))
MapEntries(es, totalWords) ==
    AsSeq([i \in 1..Len(es) |->
        [keyword |-> es[i].key, count |-> es[i].val,
         density |-> Density(es[i].val, totalWords)]])

\* b.count - a.count < 0 as a number: NaN is neither below nor above
CountGreater(a, b) == a.count.t = "num" /\ b.count.t = "num" /\ a.count.n > b.count.n

\* the entries by count descending, equal counts in their given order: an
\* entry comes after those of a greater count and after the earlier ones
\* that compare equal to it
StableSortDesc(es) ==
    LET Before(i) == {j \in 1..Len(es) :
                        \/ CountGreater(es[j], es[i])
                        \/ j < i /\ ~CountGreater(es[i], es[j])}
    IN  AsSeq([r \in 1..Len(es) |->
            es[CHOOSE i \in 1..Len(es) : Cardinality(Before(i)) = r - 1]])

\* (a, b) => b.count - a.count is a consistent comparator on es: it is one
\* unless some count is not a number while two others differ
ConsistentComparator(es) ==
    \/ \A i \in 1..Len(es) : es[i].count.t = "num"
    \/ \A i, j \in 1..Len(es) : ~CountGreater(es[i], es[j])

\* .sort((a, b) => b.count - a.count): stable; with a comparator that is not
\* consistent the order is implementation-defined
SortOutcomes(es) ==
    IF ConsistentComparator(es) THEN {StableSortDesc(es)}
    ELSE {AsSeq([i \in 1..Len(es) |-> es[p[i]]]) : p \in Permutations(1..Len(es))}

\* .slice(0, 20)
Slice(es) == SubSeq(es, 1, IF Len(es) < TopN THEN Len(es) ELSE TopN)

(***************************************************************************)
(* The documents the target URL may answer with: up to MaxFrags fragments  *)
(* one after the other.                                                    *)
(***************************************************************************)
\* the spec's example: a script block
FScript ==
    <<"<", "s", "c", "r", "i", "p", "t", ">", "i", "g", "n", "o", "r", "e",
      "d", "<", "/", "s", "c", "r", "i", "p", "t", ">">>

\* a style block, its tag in another case and with an attribute
FStyle ==
    <<"<", "S", "t", "y", "l", "e", " ", "x", ">", "i", "g", "n", "o", "r",
      "e", "d", "<", "/", "s", "t", "y", "l", "e", ">">>

\* a paragraph
FPara ==
    <<"<", "p", ">", "H", "e", "l", "l", "o", " ", "h", "e", "l", "l", "o",
      " ", "W", "O", "R", "L", "D", "<", "/", "p", ">">>

\* short words and a line break
FShort ==
    <<"t", "h", "e", " ", "a", "\n">>

\* tokens made of digits only
FYears ==
    <<"2", "0", "2", "4", " ", "1", "9", "9", "9", " ">>

\* a token that names a property of Object.prototype
FCtor ==
    <<"c", "o", "n", "s", "t", "r", "u", "c", "t", "o", "r", " ">>

\* a token that names the prototype accessor
FProto ==
    <<"_", "_", "p", "r", "o", "t", "o", "_", "_", " ", "_", "_", "p", "r",
      "o", "t", "o", "_", "_", " ">>

\* a tag and white space only
FBreak ==
    <<"<", "b", "r", ">", "\n">>

\* TopN + 1 distinct long tokens, the last of them twice
FMany ==
    <<"a", "a", "a", "a", " ", "b", "b", "b", "b", " ", "c", "c", "c", "c",
      " ", "d", "d", "d", "d", " ", "e", "e", "e", "e", " ", "f", "f", "f",
      "f", " ", "g", "g", "g", "g", " ", "h", "h", "h", "h", " ", "i", "i",
      "i", "i", " ", "j", "j", "j", "j", " ", "k", "k", "k", "k", " ", "l",
      "l", "l", "l", " ", "m", "m", "m", "m", " ", "n", "n", "n", "n", " ",
      "o", "o", "o", "o", " ", "p", "p", "p", "p", " ", "q", "q", "q", "q",
      " ", "r", "r", "r", "r", " ", "s", "s", "s", "s", " ", "t", "t", "t",
      "t", " ", "u", "u", "u", "u", " ", "u", "u", "u", "u", " ">>

Fragments == {FScript, FStyle, FPara, FShort, FYears, FCtor, FProto, FBreak, FMany}

RECURSIVE Flatten(_)
Flatten(fs) == IF fs = <<>> THEN <<>> ELSE Head(fs) \o Flatten(Tail(fs))

Has(fs, f) == \E i \in 1..Len(fs) : fs[i] = f

\* FMany is not put beside FCtor: the implementation-defined orders of that
\* many entries are more than a check enumerates
Docs ==
    {Flatten(fs) : fs \in {gs \in UNION {[1..n -> Fragments] : n \in 0..MaxFrags} :
                              ~(Has(gs, FMany) /\ Has(gs, FCtor))}}

(***************************************************************************)
(* The requests and what the outside world answers.                        *)
(***************************************************************************)
Methods == {"OPTIONS", "POST", "GET"}

\* the url member of the request's JSON object
UrlValues ==
    {[t |-> "undefined", s |-> ""], [t |-> "null", s |-> ""],
     [t |-> "string", s |-> ""], [t |-> "string", s |-> "https://example.com/"]}

\* what req.json() has to read: no JSON at all, the JSON value null, or an
\* object whose url member is as given (undefined: the member is missing)
Bodies ==
    {[kind |-> "invalid", url |-> [t |-> "undefined", s |-> ""]],
     [kind |-> "null", url |-> [t |-> "undefined", s |-> ""]]}
    \cup {[kind |-> "object", url |-> u] : u \in UrlValues}

\* the status texts of the answers that are not ok, and of those that are
ErrorStatusTexts == {"Not Found", "Service Unavailable", ""}
OkStatusTexts == {"OK"}

\* the messages of the errors fetch rejects with
RejectMessages == {"error sending request", "Invalid URL"}

NoResponse == [status |-> 0, cors |-> FALSE, contentType |-> "", kind |-> "none"]
NoUpstream == [kind |-> "none", ok |-> FALSE, statusText |-> ""]

VARIABLES
    pc,          \* where the handler of the request is
    method,      \* req.method
    reqBody,     \* the request's body
    jsonRead,    \* req.json() has been called
    fetchCount,  \* the calls of fetch
    upstream,    \* the answer of the target URL, once there is one
    html,        \* response.text()
    visibleText, \* visibleText
    words,       \* words
    wordFrequency, \* wordFrequency
    ranking,     \* the sorted entries, before .slice
    response,    \* the Response the handler returned
    store,       \* useSEOStore's seoData
    db,          \* the rows of the seo_analyses table
    calls        \* the handleArchive and handleDelete calls started so far

hvars == <<pc, method, reqBody, jsonRead, fetchCount, upstream, html,
           visibleText, words, wordFrequency, ranking, response>>

evars == <<store, db, calls>>

vars == <<hvars, evars>>

\* a validation that only looks for a missing member: url === undefined
IsFalsyMissingOnly(url) == url.t = "undefined"

\* !url
IsFalsy(url) == url.t \in {"undefined", "null"} \/ (url.t = "string" /\ url.s = "")

\* a preflight answer without the cross-origin headers: new Response('ok')
OptionsResponseNoCors ==
    [status |-> 200, cors |-> FALSE, contentType |-> "text/plain;charset=UTF-8",
     kind |-> "text", text |-> "ok"]

\* new Response('ok', { headers: corsHeaders })
OptionsResponse ==
    [status |-> 200, cors |-> TRUE, contentType |-> "text/plain;charset=UTF-8",
     kind |-> "text", text |-> "ok"]

\* the catch clause: new Response(JSON.stringify({ error: error.message }),
\* { headers: { ...corsHeaders, 'Content-Type': 'application/json' }, status: 500 })
ErrorResponse(message) ==
    [status |-> 500, cors |-> TRUE, contentType |-> "application/json",
     kind |-> "error", error |-> message]

\* new Response(JSON.stringify({ keywordDensity, totalWords }), { ..., status: 200 })
ResultResponse(keywordDensity, totalWords) ==
    [status |-> 200, cors |-> TRUE, contentType |-> "application/json",
     kind |-> "result", keywordDensity |-> keywordDensity, totalWords |-> totalWords]

\* a message that leaves the status text out: 'Failed to fetch URL'
FailedToFetchNoText(statusText) == <<"Failed to fetch URL">>

\* `Failed to fetch URL: ${response.statusText}`, as the parts it is made of
FailedToFetch(statusText) == <<"Failed to fetch URL: ", statusText>>

HInit ==
    /\ pc = "idle"
    /\ method = ""
    /\ reqBody = [kind |-> "invalid", url |-> [t |-> "undefined", s |-> ""]]
    /\ jsonRead = FALSE
    /\ fetchCount = 0
    /\ upstream = NoUpstream
    /\ html = <<>>
    /\ visibleText = <<>>
    /\ words = <<>>
    /\ wordFrequency = <<>>
    /\ ranking = <<>>
    /\ response = NoResponse

\* a preflight request: the handler returns before the try block
InvokeOptions(b) ==
    /\ pc = "idle"
    /\ method' = "OPTIONS"
    /\ reqBody' = b
    /\ response' = OptionsResponse
    /\ pc' = "done"
    /\ UNCHANGED evars
    /\ UNCHANGED <<jsonRead, fetchCount, upstream, html, visibleText, words, wordFrequency, ranking>>

\* any other request: the handler runs up to `await req.json()`
Invoke(m, b) ==
    /\ pc = "idle"
    /\ m # "OPTIONS"
    /\ method' = m
    /\ reqBody' = b
    /\ jsonRead' = TRUE
    /\ pc' = "awaitJson"
    /\ UNCHANGED evars
    /\ UNCHANGED <<fetchCount, upstream, html, visibleText, words, wordFrequency, ranking, response>>

\* req.json() rejects, or destructuring null throws: the catch clause answers
JsonFailed ==
    /\ pc = "awaitJson"
    /\ reqBody.kind # "object"
    /\ response' = ErrorResponse(IF reqBody.kind = "invalid"
                                 THEN <<"Unexpected end of JSON input">>
                                 ELSE <<"Cannot destructure property 'url' of null">>)
    /\ pc' = "done"
    /\ UNCHANGED evars
    /\ UNCHANGED <<method, reqBody, jsonRead, fetchCount, upstream, html, visibleText, words, wordFrequency, ranking>>

\* if (!url) throw new Error('URL is required')
UrlMissing ==
    /\ pc = "awaitJson"
    /\ reqBody.kind = "object"
    /\ IsFalsy(reqBody.url)
    /\ response' = ErrorResponse(<<"URL is required">>)
    /\ pc' = "done"
    /\ UNCHANGED evars
    /\ UNCHANGED <<method, reqBody, jsonRead, fetchCount, upstream, html, visibleText, words, wordFrequency, ranking>>

\* const response = await fetch(url): the call
FetchIssued ==
    /\ pc = "awaitJson"
    /\ reqBody.kind = "object"
    /\ ~IsFalsy(reqBody.url)
    /\ fetchCount' = fetchCount + 1
    /\ pc' = "awaitFetch"
    /\ UNCHANGED evars
    /\ UNCHANGED <<method, reqBody, jsonRead, upstream, html, visibleText, words, wordFrequency, ranking, response>>

\* the transport fails: fetch rejects, there is no answer of the target URL
FetchRejected(msg) ==
    /\ pc = "awaitFetch"
    /\ response' = ErrorResponse(<<msg>>)
    /\ pc' = "done"
    /\ UNCHANGED evars
    /\ UNCHANGED <<method, reqBody, jsonRead, fetchCount, upstream, html, visibleText, words, wordFrequency, ranking>>

\* if (!response.ok) throw new Error(`Failed to fetch URL: ${response.statusText}`)
FetchNotOk(st) ==
    /\ pc = "awaitFetch"
    /\ upstream' = [kind |-> "response", ok |-> FALSE, statusText |-> st]
    /\ response' = ErrorResponse(FailedToFetch(st))
    /\ pc' = "done"
    /\ UNCHANGED evars
    /\ UNCHANGED <<method, reqBody, jsonRead, fetchCount, html, visibleText, words, wordFrequency, ranking>>

\* response.ok: the handler goes on to `await response.text()`
FetchOk(st) ==
    /\ pc = "awaitFetch"
    /\ upstream' = [kind |-> "response", ok |-> TRUE, statusText |-> st]
    /\ pc' = "awaitText"
    /\ UNCHANGED evars
    /\ UNCHANGED <<method, reqBody, jsonRead, fetchCount, html, visibleText, words, wordFrequency, ranking, response>>

\* the text arrives and the rest of the try block runs
Analyze(doc) ==
    /\ pc = "awaitText"
    /\ html' = doc
    /\ LET text == VisibleText(doc)
           ws == SplitWS(text)
           totalWords == Len(ws)
           frequency == WordFrequency(ws)
           entries == MapEntries(ObjectEntries(frequency), totalWords)
       IN  /\ visibleText' = text
           /\ words' = ws
           /\ wordFrequency' = frequency
           /\ \E sorted \in SortOutcomes(entries) :
                /\ ranking' = sorted
                /\ response' = ResultResponse(Slice(sorted), totalWords)
    /\ pc' = "done"
    /\ UNCHANGED evars
    /\ UNCHANGED <<method, reqBody, jsonRead, fetchCount, upstream>>

HNext ==
    \/ \E b \in Bodies : InvokeOptions(b)
    \/ \E m \in Methods, b \in Bodies : Invoke(m, b)
    \/ JsonFailed
    \/ UrlMissing
    \/ FetchIssued
    \/ \E msg \in RejectMessages : FetchRejected(msg)
    \/ \E st \in ErrorStatusTexts : FetchNotOk(st)
    \/ \E st \in OkStatusTexts : FetchOk(st)
    \/ \E doc \in Docs : Analyze(doc)

(***************************************************************************)
(* The ExportList page.  An analysis is [id, company, archived]; company   *)
(* is a string or null.  A call of handleArchive or handleDelete keeps the *)
(* seoData of the render it was started from (the closure) until it ends.  *)
(***************************************************************************)
\* 'Sans nom d\'entreprise'
SansNom ==
    <<"S", "a", "n", "s", " ", "n", "o", "m", " ", "d", "'",
      "e", "n", "t", "r", "e", "p", "r", "i", "s", "e">>

NullCompany == [t |-> "null", s |-> <<>>]
StringCompany(s) == [t |-> "string", s |-> s]

\* the company columns of the rows: two names, one of them also with a
\* leading space, the empty name and null
Companies ==
    {StringCompany(<<"A">>), StringCompany(<<" ", "A">>), StringCompany(<<"B">>),
     StringCompany(<<>>), NullCompany}

\* the seoData the page may first be rendered with
Datasets ==
    UNION {[1..n -> {[id |-> 0, company |-> c, archived |-> a] :
                        c \in Companies, a \in BOOLEAN}] : n \in 1..MaxRows}

\* the ids are the positions of the rows
WithIds(rows) == [i \in 1..Len(rows) |-> [rows[i] EXCEPT !.id = i]]

\* item.company?.trim() || 'Sans nom d\'entreprise'
GroupKey(item) ==
    LET t == IF item.company.t = "string" THEN Trim(item.company.s) ELSE <<>>
    IN  IF t = <<>> THEN SansNom ELSE t

\* companiesData: the analyses of each group that are not archived
CompaniesData(seoData) ==
    [k \in {GroupKey(seoData[i]) : i \in 1..Len(seoData)} |->
        LET InGroup(item) == GroupKey(item) = k /\ ~item.archived
        IN  SelectSeq(seoData, InGroup)]

\* sortedCompanies: the groups with an analysis that is not archived (the
\* order of the rows on the page is left out)
SortedCompanies(seoData) ==
    {k \in DOMAIN CompaniesData(seoData) : Len(CompaniesData(seoData)[k]) > 0}

\* item.company === company, and .eq('company', company) on a row
CompanyIs(item, company) == item.company.t = "string" /\ item.company.s = company

\* seoData.map(item => item.company === company ? { ...item, archived: true } : item)
ArchiveMap(seoData, company) ==
    [i \in 1..Len(seoData) |->
        IF CompanyIs(seoData[i], company)
        THEN [seoData[i] EXCEPT !.archived = TRUE] ELSE seoData[i]]

\* seoData.filter(item => item.company !== company)
DeleteFilter(seoData, company) ==
    LET Keep(item) == ~CompanyIs(item, company) IN SelectSeq(seoData, Keep)

EInit ==
    /\ \E d \in Datasets : store = WithIds(d)
    /\ db = store
    /\ calls = <<>>

\* the calls that have called setSEOData: each one made the page render again
Renders == Cardinality({c \in 1..Len(calls) : calls[c].toast = "success"})

NewCall(kind, company, at) ==
    [kind |-> kind, company |-> company, seoData |-> store, render |-> Renders,
     pc |-> at, toast |-> "none"]

\* the Archiver button of a row: handleArchive(company) up to its await
ClickArchive(company) ==
    /\ Len(calls) < MaxCalls
    /\ company \in SortedCompanies(store)
    /\ calls' = Append(calls, NewCall("archive", company, "awaitUpdate"))
    /\ UNCHANGED <<store, db>>
    /\ UNCHANGED hvars

\* the update reaches the table and answers without an error
ArchiveUpdated(c) ==
    /\ calls[c].kind = "archive" /\ calls[c].pc = "awaitUpdate"
    /\ db' = ArchiveMap(db, calls[c].company)
    /\ calls' = [calls EXCEPT ![c].pc = "updated"]
    /\ UNCHANGED store
    /\ UNCHANGED hvars

\* the update answers with an error: the catch clause shows the error toast
ArchiveFailed(c) ==
    /\ calls[c].kind = "archive" /\ calls[c].pc = "awaitUpdate"
    /\ calls' = [calls EXCEPT ![c].pc = "done", ![c].toast = "error"]
    /\ UNCHANGED <<store, db>>
    /\ UNCHANGED hvars

\* handleArchive after its await: setSEOData(updatedData) and the success toast
ArchiveContinue(c) ==
    /\ calls[c].kind = "archive" /\ calls[c].pc = "updated"
    /\ store' = ArchiveMap(calls[c].seoData, calls[c].company)
    /\ calls' = [calls EXCEPT ![c].pc = "done", ![c].toast = "success"]
    /\ UNCHANGED db
    /\ UNCHANGED hvars

\* the Supprimer button of a row: handleDelete(company) up to its first
\* await, or its return when confirm() is declined
ClickDelete(company, confirmed) ==
    /\ Len(calls) < MaxCalls
    /\ company \in SortedCompanies(store)
    /\ calls' = Append(calls, NewCall("delete", company,
                                      IF confirmed THEN "awaitSelect" ELSE "done"))
    /\ UNCHANGED <<store, db>>
    /\ UNCHANGED hvars

\* the select answers: no row found throws 'No analyses found to delete',
\* otherwise the delete is sent
DeleteSelected(c) ==
    /\ calls[c].kind = "delete" /\ calls[c].pc = "awaitSelect"
    /\ calls' = IF \E i \in 1..Len(db) : CompanyIs(db[i], calls[c].company)
                THEN [calls EXCEPT ![c].pc = "awaitDelete"]
                ELSE [calls EXCEPT ![c].pc = "done", ![c].toast = "error"]
    /\ UNCHANGED <<store, db>>
    /\ UNCHANGED hvars

\* the select or the delete answers with an error
DeleteFailed(c) ==
    /\ calls[c].kind = "delete" /\ calls[c].pc \in {"awaitSelect", "awaitDelete"}
    /\ calls' = [calls EXCEPT ![c].pc = "done", ![c].toast = "error"]
    /\ UNCHANGED <<store, db>>
    /\ UNCHANGED hvars

\* the delete reaches the table and answers without an error
DeleteDone(c) ==
    /\ calls[c].kind = "delete" /\ calls[c].pc = "awaitDelete"
    /\ db' = DeleteFilter(db, calls[c].company)
    /\ calls' = [calls EXCEPT ![c].pc = "deleted"]
    /\ UNCHANGED store
    /\ UNCHANGED hvars

\* handleDelete after its awaits: setSEOData(updatedData) and the success toast
DeleteContinue(c) ==
    /\ calls[c].kind = "delete" /\ calls[c].pc = "deleted"
    /\ store' = DeleteFilter(calls[c].seoData, calls[c].company)
    /\ calls' = [calls EXCEPT ![c].pc = "done", ![c].toast = "success"]
    /\ UNCHANGED db
    /\ UNCHANGED hvars

ENext ==
    \/ \E k \in SortedCompanies(store) : ClickArchive(k)
    \/ \E k \in SortedCompanies(store), ok \in BOOLEAN : ClickDelete(k, ok)
    \/ \E c \in 1..Len(calls) : ArchiveUpdated(c)
    \/ \E c \in 1..Len(calls) : ArchiveFailed(c)
    \/ \E c \in 1..Len(calls) : ArchiveContinue(c)
    \/ \E c \in 1..Len(calls) : DeleteSelected(c)
    \/ \E c \in 1..Len(calls) : DeleteFailed(c)
    \/ \E c \in 1..Len(calls) : DeleteDone(c)
    \/ \E c \in 1..Len(calls) : DeleteContinue(c)

(***************************************************************************)
(* The specifications: one request to the edge function, and one session   *)
(* of the ExportList page.                                                 *)
(***************************************************************************)
Init == HInit /\ store = <<>> /\ db = <<>> /\ calls = <<>>

Next == HNext

Spec == Init /\ [][Next]_vars

InitExport == HInit /\ EInit

NextExport == ENext

SpecExport == InitExport /\ [][NextExport]_vars

(***************************************************************************)
(* What the claims speak of.                                               *)
(***************************************************************************)
Succeeded == pc = "done" /\ response.kind = "result"

\* the tokens of s: its maximal runs of characters that are not white space,
\* given by the positions where they start
TokenStarts(s) == {i \in 1..Len(s) : s[i] \notin WS /\ (i = 1 \/ s[i - 1] \in WS)}

\* how often the token w occurs among ws
Occurrences(ws, w) == Cardinality({i \in 1..Len(ws) : ws[i] = w})

\* the tokens that occur among ws
TokensOf(ws) == {ws[i] : i \in 1..Len(ws)} \ {<<>>}

\* where w is first met among ws
FirstSeen(ws, w) == CHOOSE i \in 1..Len(ws) : ws[i] = w /\ \A j \in 1..(i - 1) : ws[j] # w

Keywords(es) == {es[i].keyword : i \in 1..Len(es)}

\* C1: totalWords of a successful response is the number of tokens (maximal
\* runs of characters that are not white space) of the normalized visible
\* text; an empty text gives totalWords = 0.
C1_TotalWordsIsTokenCount ==
    Succeeded => response.totalWords = Cardinality(TokenStarts(VisibleText(html)))

\* C2 as stated: an OPTIONS request is answered with 200, the cross-origin
\* headers and no body, without reading the request body and without a fetch.
C2_OptionsEmptyBody ==
    (pc = "done" /\ method = "OPTIONS") =>
        /\ response.status = 200
        /\ response.cors
        /\ response.kind = "text" => response.text = ""
        /\ response.kind \in {"text", "empty"}
        /\ ~jsonRead
        /\ fetchCount = 0

\* C2 as amended: an OPTIONS request is answered with 200, the cross-origin
\* headers and the body 'ok', without reading the request body and without
\* a fetch.
C2_OptionsOkBody ==
    (pc = "done" /\ method = "OPTIONS") =>
        /\ response.status = 200
        /\ response.cors
        /\ response.kind = "text"
        /\ response.text = "ok"
        /\ ~jsonRead
        /\ fetchCount = 0

C2_Witness == pc = "done" /\ method = "OPTIONS" /\ reqBody.kind = "object"

\* C3: in keywordDensity two entries of equal count stand in the order in
\* which their tokens were first met among the words, whatever the tokens.
C3_TiesInFirstSeenOrder ==
    Succeeded =>
        \A i, j \in 1..Len(response.keywordDensity) :
            LET a == response.keywordDensity[i]
                b == response.keywordDensity[j]
            IN  (i < j /\ a.count = b.count) =>
                    FirstSeen(words, a.keyword) < FirstSeen(words, b.keyword)

\* the fetch of the request failed: it was called and gave no ok answer
FetchFailed == pc = "done" /\ fetchCount > 0 /\ ~upstream.ok

\* C4 as stated: when the retrieval fails (fetch rejects, or the answer is
\* not ok) the handler answers 500 with {error: message}, and message holds
\* the status text of the upstream answer.
C4_FailureCarriesStatusText ==
    FetchFailed =>
        /\ response.status = 500
        /\ response.kind = "error"
        /\ upstream.kind = "response"
        /\ \E i \in 1..Len(response.error) : response.error[i] = upstream.statusText

\* C4 as amended: when the retrieval fails the handler answers 500 with
\* {error: message}; when the answer is not ok, message is 'Failed to fetch
\* URL: ' followed by the upstream status text, and when fetch rejects, message
\* is the message of the rejection (there is no upstream status text).
C4_FailureAnswer ==
    FetchFailed =>
        /\ response.status = 500
        /\ response.cors
        /\ response.kind = "error"
        /\ IF upstream.kind = "response"
           THEN response.error = <<"Failed to fetch URL: ", upstream.statusText>>
           ELSE \E m \in RejectMessages : response.error = <<m>>

C4_Witness == FetchFailed /\ upstream.kind = "response" /\ upstream.statusText = "Not Found"

\* C5: a token of the normalized text has an entry in the ranking before
\* truncation exactly if it is longer than 3 characters, the count of that
\* entry is the number of the token's occurrences, and every returned keyword
\* is longer than 3 characters; this for every token, whatever its characters.
C5_RankingCountsLongTokens ==
    Succeeded =>
        /\ \A w \in TokensOf(words) : w \in Keywords(ranking) <=> Len(w) > 3
        /\ \A i \in 1..Len(ranking) :
              ranking[i].count = NumV(Occurrences(words, ranking[i].keyword))
        /\ \A k \in Keywords(response.keywordDensity) : Len(k) > 3

\* the count of entry a is a number and at least n
CountAtLeast(a, n) == a.count.t = "num" /\ a.count.n >= n

\* C6: keywordDensity has at most 20 entries, its counts do not increase
\* along it, and no token longer than 3 characters that is left out occurs
\* more often than a returned entry's count.
C6_TopTwentyByCount ==
    Succeeded =>
        LET kd == response.keywordDensity
        IN  /\ Len(kd) <= 20
            /\ \A i, j \in 1..Len(kd) :
                  i < j => kd[j].count.t = "num" /\ CountAtLeast(kd[i], kd[j].count.n)
            /\ \A w \in TokensOf(words) :
                  (Len(w) > 3 /\ w \notin Keywords(kd)) =>
                      \A i \in 1..Len(kd) : CountAtLeast(kd[i], Occurrences(words, w))

\* C7: every entry of a successful response has 1 <= count <= totalWords and
\* a density 100 * count / totalWords within [0, 100], computed without a
\* division by zero.
C7_DensityInRange ==
    Succeeded =>
        \A i \in 1..Len(response.keywordDensity) :
            LET e == response.keywordDensity[i]
            IN  /\ CountAtLeast(e, 1)
                /\ e.count.n <= response.totalWords
                /\ e.density.den # 0
                /\ ~e.density.nan
                /\ 0 <= e.density.num /\ e.density.num <= 100 * e.density.den

\* the request is a POST whose JSON object has no url, or an empty one
UrlMissingOrEmpty ==
    /\ method = "POST"
    /\ reqBody.kind = "object"
    /\ reqBody.url \in {[t |-> "undefined", s |-> ""], [t |-> "string", s |-> ""]}

\* C8: a POST whose JSON body has a missing or empty url is answered with 500
\* and {"error":"URL is required"}, and no fetch is made for it.
C8_MissingUrlRejected ==
    UrlMissingOrEmpty =>
        /\ fetchCount = 0
        /\ pc # "awaitFetch" /\ pc # "awaitText"
        /\ pc = "done" =>
              /\ response.status = 500
              /\ response.kind = "error"
              /\ response.error = <<"URL is required">>

C8_Witness ==
    pc = "done" /\ method = "POST" /\ reqBody.kind = "object"
    /\ reqBody.url = [t |-> "string", s |-> ""]

\* every call has ended with the success toast, the calls are on different
\* companies and were all started from the same render
AllSucceededFromOneRender ==
    /\ Len(calls) >= 2
    /\ \A c \in 1..Len(calls) :
          calls[c].pc = "done" /\ calls[c].toast = "success"
    /\ \A c, d \in 1..Len(calls) :
          /\ calls[c].render = calls[d].render
          /\ c # d => calls[c].company # calls[d].company

\* C9: once calls on different companies, started from the same render and
\* all successful, have ended, the store shows every one of them: the rows of
\* an archived company are archived, those of a deleted company are gone.
C9_EveryCallKept ==
    AllSucceededFromOneRender =>
        \A c \in 1..Len(calls) : \A i \in 1..Len(store) :
            CompanyIs(store[i], calls[c].company) =>
                calls[c].kind = "archive" /\ store[i].archived

\* C10: when the one call made so far, a handleArchive on a displayed row,
\* has ended with the success toast, no analysis of that group is left that
\* is not archived: the row is displayed no more.
C10_ArchivedRowGone ==
    (/\ Len(calls) = 1
     /\ calls[1].kind = "archive"
     /\ calls[1].pc = "done"
     /\ calls[1].toast = "success") =>
        calls[1].company \notin SortedCompanies(store)

====
